---- MODULE Spec2Model ----
(***************************************************************************)
(* A model of src/upload_to_drive.py: main() resolves the configuration,   *)
(* upload_with_retry() drives upload_file() (find_existing_file, then      *)
(* files().update or files().create), verifies with files().get and       *)
(* appends the file-id line, under a fixed-attempt, fixed-delay retry      *)
(* loop.  One action per statement group; pc is the position in the code.  *)
(*                                                                         *)
(* The Drive folder is the set `remote` of objects.  A backend call either *)
(* succeeds with its effect or fails (raises) without any effect on the    *)
(* folder; which of the two happens is chosen by the environment.          *)
(* Values the program reads from its arguments and environment are chosen  *)
(* by the environment at the step that first reads them.                   *)
(***************************************************************************)
EXTENDS Integers, Sequences, FiniteSets

\* ---------------------------------------------------------------- bounds
MaxAttemptsBound == 3
MaxInitObjects == 1
MaxRuns == 2

\* ------------------------------------------------------ program constants
DefaultRetryDelay == 5

\* Python's None for an identifier or a looked-up file (identifiers are >= 1).
None == 0

\* ------------------------------------------------------------ input sets
Target == "build.zip"
Other == "other.txt"
Names == {Target, Other}
LocalContent == "local"
OrigContent == "orig"

\* A credentials value: absent/empty, a blob that does not decode, a good blob.
CredValues == {"", "malformed", "valid"}
FolderValues == {"", "F1"}
\* --max-attempts is an unvalidated int.
MaxAttemptsValues == (0 - 1)..MaxAttemptsBound
RetryDelays == {1, DefaultRetryDelay}
\* GITHUB_OUTPUT: not set, naming a file that can be appended to, or one that cannot.
OutputEnvValues == {"unset", "writable", "unwritable"}

\* The folders the run can start from: objects 1..k, each under some name.
InitContainers ==
  UNION { { { [id |-> i, name |-> f[i], content |-> OrigContent] : i \in 1..k }
            : f \in [1..k -> Names] }
          : k \in 0..MaxInitObjects }

VARIABLES
  pc,                 \* position in the code
  run,                \* index of the current process run (1..MaxRuns)
  remote,             \* the Drive folder: a set of [id, name, content]
  credentials_base64, \* main's local (line 277)
  folder_id,          \* main's local (line 284)
  credAbsent,         \* the credentials were absent from argument and environment
  folderAbsent,       \* the folder id was absent from argument and environment
  max_attempts, retry_delay, overwrite,  \* parsed arguments
  localExists,        \* os.path.exists(file_path)
  githubOutput,       \* state of the GITHUB_OUTPUT variable
  attempt,            \* the loop variable of upload_with_retry
  existing_file,      \* upload_file's local: id of the file found, or None
  file_id,            \* upload_with_retry's local: upload_file's result
  success,            \* upload_with_retry's return value
  returnSite,         \* the statement that ended the run
  exitStatus,         \* the process exit status, -1 while running
  output,             \* the file-id lines appended to the output file
  sleeps,             \* the time.sleep calls made, by duration
  executorCalls,      \* the upload_file calls made in this run
  calls,              \* backend calls issued in this run, by kind
  okCalls,            \* backend calls that succeeded in this run, by kind
  lookup,             \* this attempt's lookup: none, failed, absent, found
  path,               \* this attempt's branch: none, conflict, update, create
  raised,             \* an unexpected exception escaped upload_file in this run
  getFileId,          \* the fileId argument of this run's get call, None before it
  preRemote,          \* the folder when the current upload_file call started
  startRemote,        \* the folder when the current run started
  prev                \* what the previous run ended with

vars == << pc, run, remote, credentials_base64, folder_id, credAbsent, folderAbsent,
           max_attempts, retry_delay, overwrite, localExists, githubOutput,
           attempt, existing_file, file_id, success, returnSite, exitStatus,
           output, sleeps, executorCalls, calls, okCalls, lookup, path, raised,
           getFileId, preRemote, startRemote, prev >>

configVars == << credentials_base64, folder_id, credAbsent, folderAbsent >>
argVars == << max_attempts, retry_delay, overwrite, localExists >>
attemptVars == << existing_file, lookup, path, preRemote >>
logVars == << output, sleeps, executorCalls, calls, okCalls, raised, getFileId >>
runVars == << run, startRemote, prev >>

NoCalls == [list |-> 0, create |-> 0, update |-> 0, get |-> 0]
NoPrev == [ran |-> FALSE, exitStatus |-> 0 - 1, file_id |-> None,
           overwrite |-> FALSE, lookup |-> "none", startRemote |-> {}]

\* ------------------------------------------------------------- helpers

\* Python's `a or b` on strings: the first one that is not empty.
Or(a, b) == IF a # "" THEN a ELSE b

\* Mutant: the query does not filter by name.
Matching_AnyName(folder, name) == folder

\* The objects a name query returns (lines 143-151): same name, in the folder.
Matching(folder, name) == { o \in folder : o.name = name }

\* The backend's next identifier: never one the folder holds.
FreshId(folder) ==
  IF folder = {} THEN 1
  ELSE (CHOOSE m \in { o.id : o \in folder } :
          \A o \in folder : o.id <= m) + 1

\* files().create (lines 198-203): a new object under the target name.
Created(folder, name) ==
  folder \cup { [id |-> FreshId(folder), name |-> name, content |-> LocalContent] }

\* files().update (lines 177-181): the object's content replaced in place.
Updated(folder, id) ==
  { IF o.id = id THEN [o EXCEPT !.content = LocalContent] ELSE o : o \in folder }

Bump(c, kind) == [c EXCEPT ![kind] = @ + 1]

\* ------------------------------------------------- decisions of the code

\* Mutant: the loop body runs once before the bound is tested.
InRange_AtLeastOnce(att, max) == att = 0 \/ (att >= 0 /\ att < max)

\* `for attempt in range(max_attempts)` (line 223): is there an attempt `att`?
InRange(att, max) == att >= 0 /\ att < max

\* Mutant: no result of upload_file counts as an identifier.
Truthy_Never(id) == FALSE

\* Mutant: every result of upload_file counts as an identifier.
Truthy_Always(id) == TRUE

\* `if file_id:` (line 229).
Truthy(id) == id # None

\* Mutant: the conflict is retried like any other failure.
ShortCircuit_Never(ow, att) == FALSE

\* Mutant: the short-circuit does not look at the overwrite flag.
ShortCircuit_IgnoresFlag(ow, att) == att = 0

\* `if not overwrite and attempt == 0:` (line 254).
ShortCircuit(ow, att) == ~ow /\ att = 0

\* Mutant: the test also lets the last attempt sleep.
NeedsSleep_AfterLast(att, max) == att < max

\* `if attempt < max_attempts - 1:` (lines 259 and 264).
NeedsSleep(att, max) == att < max - 1

\* Mutant: an overwrite always uploads a new file.
UploadPath_OverwriteCreates(existing, ow) ==
  IF existing # None /\ ~ow THEN "conflict" ELSE "create"

\* Mutant: the branch tests the flag before the lookup's result.
UploadPath_FlagFirst(existing, ow) ==
  IF ow THEN "update" ELSE (IF existing # None THEN "conflict" ELSE "create")

\* Mutant: a file that exists is replaced whatever the flag says.
UploadPath_IgnoresFlag(existing, ow) ==
  IF existing # None THEN "update" ELSE "create"

\* upload_file's branch on the lookup's result (lines 171-198).
UploadPath(existing, ow) ==
  IF existing # None
    THEN (IF ow THEN "update" ELSE "conflict")
    ELSE "create"

\* Mutant: the exit status ignores the result.
ExitCode_AlwaysZero(ok) == 0

\* `sys.exit(0 if success else 1)` (line 309).
ExitCode(ok) == IF ok THEN 0 ELSE 1

\* Mutant: the blob is not checked.
BlobDecodes_Unchecked(blob) == TRUE

\* get_credentials (lines 94-103): does the blob decode, parse and load?
BlobDecodes(blob) == blob = "valid"

\* Mutant: a failed verification fails the run.
VerifyFailedResult_False == FALSE

\* What upload_with_retry returns when the verification raises (line 251).
VerifyFailedResult == TRUE

\* The line written to the output file (line 246) carries this identifier.
OutputLine(id) == id

\* ------------------------------------------------------------------ Init

Init ==
  /\ pc = "main"
  /\ run = 1
  /\ remote \in InitContainers
  /\ credentials_base64 = ""
  /\ folder_id = ""
  /\ credAbsent = FALSE
  /\ folderAbsent = FALSE
  /\ max_attempts = 0
  /\ retry_delay = 0
  /\ overwrite = FALSE
  /\ localExists = FALSE
  /\ githubOutput = "unread"
  /\ attempt = 0
  /\ existing_file = None
  /\ file_id = None
  /\ success = FALSE
  /\ returnSite = "none"
  /\ exitStatus = 0 - 1
  /\ output = << >>
  /\ sleeps = << >>
  /\ executorCalls = 0
  /\ calls = NoCalls
  /\ okCalls = NoCalls
  /\ lookup = "none"
  /\ path = "none"
  /\ raised = FALSE
  /\ getFileId = None
  /\ preRemote = remote
  /\ startRemote = remote
  /\ prev = NoPrev

\* sys.exit(1) from main or get_credentials: the process ends at once.
FatalExit(site) ==
  /\ pc' = "done"
  /\ returnSite' = site
  /\ exitStatus' = 1

\* `return True` / `return False` from upload_with_retry, back into main.
Return(value, site) ==
  /\ pc' = "main_exit"
  /\ success' = value
  /\ returnSite' = site

\* ------------------------------------------------------------------ main

\* Lines 277-281: credentials from the argument, else from DRIVE_CREDENTIALS.
main_credentials ==
  /\ pc = "main"
  /\ \E arg \in CredValues, env \in CredValues :
       /\ credentials_base64' = Or(arg, env)
       /\ credAbsent' = (arg = "" /\ env = "")
  /\ IF credentials_base64' = ""
       THEN FatalExit("no_credentials")
       ELSE pc' = "main_folder" /\ UNCHANGED << returnSite, exitStatus >>
  /\ UNCHANGED << remote, folder_id, folderAbsent, argVars, githubOutput, attempt,
                  file_id, success, attemptVars, logVars, runVars >>

\* Lines 284-288: folder id from the argument, else from DRIVE_FOLDER_ID.
main_folder ==
  /\ pc = "main_folder"
  /\ \E arg \in FolderValues, env \in FolderValues :
       /\ folder_id' = Or(arg, env)
       /\ folderAbsent' = (arg = "" /\ env = "")
  /\ IF folder_id' = ""
       THEN FatalExit("no_folder")
       ELSE pc' = "get_credentials" /\ UNCHANGED << returnSite, exitStatus >>
  /\ UNCHANGED << remote, credentials_base64, credAbsent, argVars, githubOutput,
                  attempt, file_id, success, attemptVars, logVars, runVars >>

\* Lines 294, 92-106: decode and parse the blob; any failure exits with 1.
get_credentials ==
  /\ pc = "get_credentials"
  /\ IF ~BlobDecodes(credentials_base64)
       THEN FatalExit("bad_credentials")
       ELSE pc' = "upload_with_retry" /\ UNCHANGED << returnSite, exitStatus >>
  /\ UNCHANGED << remote, configVars, argVars, githubOutput, attempt, file_id,
                  success, attemptVars, logVars, runVars >>

\* Lines 295-307, 218-223: build the client and enter upload_with_retry with
\* the parsed arguments; the loop starts at attempt 0.
main_upload ==
  /\ pc = "upload_with_retry"
  /\ max_attempts' \in MaxAttemptsValues
  /\ retry_delay' \in RetryDelays
  /\ overwrite' \in BOOLEAN
  /\ localExists' \in BOOLEAN
  /\ attempt' = 0
  /\ pc' = "loop"
  /\ UNCHANGED << remote, configVars, githubOutput, file_id, success, returnSite,
                  exitStatus, attemptVars, logVars, runVars >>

\* Line 309.
main_exit ==
  /\ pc = "main_exit"
  /\ exitStatus' = ExitCode(success)
  /\ pc' = "done"
  /\ UNCHANGED << remote, configVars, argVars, githubOutput, attempt, file_id,
                  success, returnSite, attemptVars, logVars, runVars >>

\* ----------------------------------------------------- upload_with_retry

\* Lines 223-227 and 268-269: the next iteration calls upload_file; with no
\* iteration left the function reports the failure and returns False.
loop_head ==
  /\ pc = "loop"
  /\ IF InRange(attempt, max_attempts)
       THEN /\ pc' = "upload_file"
            /\ executorCalls' = executorCalls + 1
            /\ existing_file' = None
            /\ file_id' = None
            /\ lookup' = "none"
            /\ path' = "none"
            /\ preRemote' = remote
            /\ UNCHANGED << success, returnSite >>
       ELSE /\ Return(FALSE, "exhausted")
            /\ UNCHANGED << executorCalls, file_id, attemptVars >>
  /\ UNCHANGED << remote, configVars, argVars, githubOutput, attempt, exitStatus,
                  output, sleeps, calls, okCalls, raised, getFileId, runVars >>

\* An exception that upload_file does not catch reaches line 262.
upload_file_raises ==
  /\ pc = "upload_file"
  /\ pc' = "except"
  /\ raised' = TRUE
  /\ UNCHANGED << remote, configVars, argVars, githubOutput, attempt, file_id,
                  success, returnSite, exitStatus, attemptVars, output, sleeps,
                  executorCalls, calls, okCalls, getFileId, runVars >>

\* Mutant: the lookup is made before the local file is checked.
upload_file_check_Unchecked ==
  /\ pc = "upload_file"
  /\ pc' = "find_existing_file"
  /\ UNCHANGED << remote, configVars, argVars, githubOutput, attempt, file_id,
                  success, returnSite, exitStatus, attemptVars, logVars, runVars >>

\* Lines 161-166: a missing local file makes upload_file return None.
upload_file_check ==
  /\ pc = "upload_file"
  /\ IF localExists
       THEN pc' = "find_existing_file"
       ELSE pc' = "result"
  /\ UNCHANGED << remote, configVars, argVars, githubOutput, attempt, file_id,
                  success, returnSite, exitStatus, attemptVars, logVars, runVars >>

\* Mutant: a failed list call is not caught in find_existing_file; it reaches
\* upload_file's handler, which returns None.
find_existing_file_Propagates ==
  /\ pc = "find_existing_file"
  /\ calls' = Bump(calls, "list")
  /\ \/ /\ okCalls' = Bump(okCalls, "list")
        /\ IF Matching(remote, Target) = {}
             THEN existing_file' = None /\ lookup' = "absent"
             ELSE /\ \E o \in Matching(remote, Target) : existing_file' = o.id
                  /\ lookup' = "found"
        /\ pc' = "branch"
        /\ UNCHANGED file_id
     \/ /\ existing_file' = None
        /\ lookup' = "failed"
        /\ file_id' = None
        /\ pc' = "result"
        /\ UNCHANGED okCalls
  /\ UNCHANGED << remote, configVars, argVars, githubOutput, attempt,
                  success, returnSite, exitStatus, path, preRemote, output, sleeps,
                  executorCalls, raised, getFileId, runVars >>

\* Lines 169, 140-155: the list call.  It returns the first file the backend
\* lists under the name (any of them), or None when there is none; a failed
\* call is caught and gives None as well.
find_existing_file ==
  /\ pc = "find_existing_file"
  /\ calls' = Bump(calls, "list")
  /\ \/ /\ okCalls' = Bump(okCalls, "list")
        /\ IF Matching(remote, Target) = {}
             THEN existing_file' = None /\ lookup' = "absent"
             ELSE /\ \E o \in Matching(remote, Target) : existing_file' = o.id
                  /\ lookup' = "found"
     \/ /\ existing_file' = None
        /\ lookup' = "failed"
        /\ UNCHANGED okCalls
  /\ pc' = "branch"
  /\ UNCHANGED << remote, configVars, argVars, githubOutput, attempt, file_id,
                  success, returnSite, exitStatus, path, preRemote, output, sleeps,
                  executorCalls, raised, getFileId, runVars >>

\* Lines 171-196: update, conflict (return None) or create.
upload_file_branch ==
  /\ pc = "branch"
  /\ path' = UploadPath(existing_file, overwrite)
  /\ pc' = IF path' = "conflict" THEN "result" ELSE path'
  /\ UNCHANGED << remote, configVars, argVars, githubOutput, attempt, file_id,
                  success, returnSite, exitStatus, existing_file, lookup, preRemote,
                  logVars, runVars >>

\* Lines 177-184, 210-215: the update call replaces the content of the file
\* found and returns its id; a failed call is caught and gives None.
upload_file_update ==
  /\ pc = "update"
  /\ calls' = Bump(calls, "update")
  /\ \/ /\ okCalls' = Bump(okCalls, "update")
        /\ remote' = Updated(remote, existing_file)
        /\ file_id' = existing_file
     \/ /\ file_id' = None
        /\ UNCHANGED << okCalls, remote >>
  /\ pc' = "result"
  /\ UNCHANGED << configVars, argVars, githubOutput, attempt, success, returnSite,
                  exitStatus, attemptVars, output, sleeps, executorCalls, raised,
                  getFileId, runVars >>

\* Lines 191-209, 210-215: the create call adds a file under the target name
\* and returns the id the backend gave it; a failed call gives None.
upload_file_create ==
  /\ pc = "create"
  /\ calls' = Bump(calls, "create")
  /\ \/ /\ okCalls' = Bump(okCalls, "create")
        /\ remote' = Created(remote, Target)
        /\ file_id' = FreshId(remote)
     \/ /\ file_id' = None
        /\ UNCHANGED << okCalls, remote >>
  /\ pc' = "result"
  /\ UNCHANGED << configVars, argVars, githubOutput, attempt, success, returnSite,
                  exitStatus, attemptVars, output, sleeps, executorCalls, raised,
                  getFileId, runVars >>

\* Mutant: the conflict branch reports but does not return.
attempt_result_NoReturn ==
  /\ pc = "result"
  /\ IF Truthy(file_id)
       THEN /\ pc' = "verify"
            /\ githubOutput' \in OutputEnvValues
            /\ UNCHANGED << attempt, success, returnSite >>
       ELSE /\ UNCHANGED << githubOutput, success >>
            /\ returnSite' = IF ShortCircuit(overwrite, attempt)
                               THEN "conflict" ELSE returnSite
            /\ IF NeedsSleep(attempt, max_attempts)
                 THEN pc' = "sleep" /\ UNCHANGED attempt
                 ELSE pc' = "loop" /\ attempt' = attempt + 1
  /\ UNCHANGED << remote, configVars, argVars, file_id, exitStatus, attemptVars,
                  logVars, runVars >>

\* Lines 229 and 252-261: what the loop does with upload_file's result.  The
\* success branch reads GITHUB_OUTPUT (line 245); its state is fixed here.
attempt_result ==
  /\ pc = "result"
  /\ IF Truthy(file_id)
       THEN /\ pc' = "verify"
            /\ githubOutput' \in OutputEnvValues
            /\ UNCHANGED << attempt, success, returnSite >>
       ELSE /\ UNCHANGED githubOutput
            /\ IF ShortCircuit(overwrite, attempt)
                 THEN Return(FALSE, "conflict") /\ UNCHANGED attempt
                 ELSE /\ UNCHANGED << success, returnSite >>
                      /\ IF NeedsSleep(attempt, max_attempts)
                           THEN pc' = "sleep" /\ UNCHANGED attempt
                           ELSE pc' = "loop" /\ attempt' = attempt + 1
  /\ UNCHANGED << remote, configVars, argVars, file_id, exitStatus, attemptVars,
                  logVars, runVars >>

\* Mutant: the handler goes on to the next attempt without the sleep.
except_handler_NoSleep ==
  /\ pc = "except"
  /\ pc' = "loop"
  /\ attempt' = attempt + 1
  /\ UNCHANGED << remote, configVars, argVars, githubOutput, file_id, success,
                  returnSite, exitStatus, attemptVars, logVars, runVars >>

\* Lines 262-266: the handler of an unexpected exception.
except_handler ==
  /\ pc = "except"
  /\ IF NeedsSleep(attempt, max_attempts)
       THEN pc' = "sleep" /\ UNCHANGED attempt
       ELSE pc' = "loop" /\ attempt' = attempt + 1
  /\ UNCHANGED << remote, configVars, argVars, githubOutput, file_id, success,
                  returnSite, exitStatus, attemptVars, logVars, runVars >>

\* Lines 261 and 266: time.sleep(retry_delay), then the next iteration.
sleep ==
  /\ pc = "sleep"
  /\ sleeps' = Append(sleeps, retry_delay)
  /\ attempt' = attempt + 1
  /\ pc' = "loop"
  /\ UNCHANGED << remote, configVars, argVars, githubOutput, file_id, success,
                  returnSite, exitStatus, attemptVars, output, executorCalls, calls,
                  okCalls, raised, getFileId, runVars >>

\* Lines 231-236, 249-251: the get call on file_id; when it fails the handler warns and
\* returns True.
verify ==
  /\ pc = "verify"
  /\ calls' = Bump(calls, "get")
  /\ getFileId' = file_id
  /\ \/ /\ okCalls' = Bump(okCalls, "get")
        /\ pc' = "write_output"
        /\ UNCHANGED << success, returnSite >>
     \/ /\ Return(VerifyFailedResult, "unverified")
        /\ UNCHANGED okCalls
  /\ UNCHANGED << remote, configVars, argVars, githubOutput, attempt, file_id,
                  exitStatus, attemptVars, output, sleeps, executorCalls, raised,
                  runVars >>

\* Lines 245-251: append the file-id line to the file GITHUB_OUTPUT names
\* (/dev/null when unset) and return True; when the file cannot be opened the
\* handler of line 249 warns and returns True.
write_output ==
  /\ pc = "write_output"
  /\ IF githubOutput = "unwritable"
       THEN Return(VerifyFailedResult, "unverified") /\ UNCHANGED output
       ELSE /\ Return(TRUE, "verified")
            /\ output' = IF githubOutput = "writable"
                           THEN Append(output, OutputLine(file_id))
                           ELSE output
  /\ UNCHANGED << remote, configVars, argVars, githubOutput, attempt, file_id,
                  exitStatus, attemptVars, sleeps, executorCalls, calls, okCalls,
                  raised, getFileId, runVars >>

\* ----------------------------------------------------------- the next run

\* The process has exited; the tool is run again on the same folder.
next_run ==
  /\ pc = "done"
  /\ run < MaxRuns
  /\ run' = run + 1
  /\ prev' = [ran |-> TRUE, exitStatus |-> exitStatus, file_id |-> file_id,
              overwrite |-> overwrite, lookup |-> lookup,
              startRemote |-> startRemote]
  /\ startRemote' = remote
  /\ preRemote' = remote
  /\ pc' = "main"
  /\ credentials_base64' = ""
  /\ folder_id' = ""
  /\ credAbsent' = FALSE
  /\ folderAbsent' = FALSE
  /\ max_attempts' = 0
  /\ retry_delay' = 0
  /\ overwrite' = FALSE
  /\ localExists' = FALSE
  /\ githubOutput' = "unread"
  /\ attempt' = 0
  /\ existing_file' = None
  /\ file_id' = None
  /\ success' = FALSE
  /\ returnSite' = "none"
  /\ exitStatus' = 0 - 1
  /\ output' = << >>
  /\ sleeps' = << >>
  /\ executorCalls' = 0
  /\ calls' = NoCalls
  /\ okCalls' = NoCalls
  /\ lookup' = "none"
  /\ path' = "none"
  /\ raised' = FALSE
  /\ getFileId' = None
  /\ UNCHANGED remote

Next ==
  \/ main_credentials
  \/ main_folder
  \/ get_credentials
  \/ main_upload
  \/ main_exit
  \/ loop_head
  \/ upload_file_raises
  \/ upload_file_check
  \/ find_existing_file
  \/ upload_file_branch
  \/ upload_file_update
  \/ upload_file_create
  \/ attempt_result
  \/ except_handler
  \/ sleep
  \/ verify
  \/ write_output
  \/ next_run

Spec == Init /\ [][Next]_vars

\* ============================================================== claims

Ids(folder) == { o.id : o \in folder }

\* The objects of a folder that bear a name.
WithName(folder, name) == { o \in folder : o.name = name }

\* The run went through upload_with_retry and the process has exited.
RunDone ==
  /\ pc = "done"
  /\ returnSite \in {"verified", "unverified", "conflict", "exhausted"}

NoBackendCallSucceeded == okCalls = NoCalls
NoLookupFailed == calls.list = okCalls.list
TargetExistedAtStart == WithName(startRemote, Target) # {}

\* C1 (as claimed): with max_attempts = N >= 1 and either value of overwrite, a
\* run in which every backend call fails calls upload_file exactly N times,
\* sleeps exactly N-1 times for retry_delay seconds each, and exits with 1.
C1_RetryCountAsClaimed ==
  (RunDone /\ max_attempts >= 1 /\ localExists /\ ~raised
     /\ calls.list >= 1 /\ NoBackendCallSucceeded)
  => /\ executorCalls = max_attempts
     /\ Len(sleeps) = max_attempts - 1
     /\ \A i \in 1..Len(sleeps) : sleeps[i] = retry_delay
     /\ exitStatus = 1

\* C2 (as claimed): when the target name exists in the folder and overwrite is
\* false, the run makes exactly one upload_file call, which returns None, does
\* not sleep, creates or updates nothing, writes no file-id line and exits 1.
C2_ConflictAsClaimed ==
  (RunDone /\ max_attempts >= 1 /\ TargetExistedAtStart /\ ~overwrite)
  => /\ executorCalls = 1
     /\ file_id = None
     /\ sleeps = << >>
     /\ remote = startRemote
     /\ output = << >>
     /\ exitStatus = 1

\* C2 (amended): the same, for a run with max_attempts >= 1 in which no lookup
\* call fails and no unexpected exception escapes upload_file; the run then
\* ends at the conflict return of line 257.
C2_Conflict ==
  (RunDone /\ max_attempts >= 1 /\ TargetExistedAtStart /\ ~overwrite
     /\ NoLookupFailed /\ ~raised)
  => /\ executorCalls = 1
     /\ file_id = None
     /\ sleeps = << >>
     /\ remote = startRemote
     /\ output = << >>
     /\ returnSite = "conflict"
     /\ exitStatus = 1

\* C2 witness: a run that found the existing file, with attempts to spare,
\* and stopped at the conflict.
C2_Witness ==
  /\ RunDone /\ max_attempts >= 2 /\ TargetExistedAtStart /\ ~overwrite
  /\ ~raised /\ localExists /\ lookup = "found" /\ path = "conflict"
  /\ executorCalls = 1 /\ exitStatus = 1

\* upload_file has just returned to line 227 in the current attempt.
UploadFileReturned == pc = "result"

TargetExistedAtCall == WithName(preRemote, Target) # {}

\* C3 (as claimed): when the target name exists in the folder and overwrite is
\* true, every identifier upload_file returns is the identifier of an object
\* that already bore the name, and the folder holds no new object.
C3_UpdateInPlaceAsClaimed ==
  (UploadFileReturned /\ file_id # None /\ overwrite /\ TargetExistedAtCall)
  => /\ file_id \in Ids(WithName(preRemote, Target))
     /\ Ids(remote) = Ids(preRemote)

\* C3 (amended): the same, when the lookup call of that upload_file call did
\* not fail; the object keeps its name and carries the local content.
C3_UpdateInPlace ==
  (UploadFileReturned /\ file_id # None /\ overwrite /\ TargetExistedAtCall
     /\ lookup # "failed")
  => /\ file_id \in Ids(WithName(preRemote, Target))
     /\ Ids(remote) = Ids(preRemote)
     /\ path = "update"
     /\ [id |-> file_id, name |-> Target, content |-> LocalContent] \in remote

\* C3 witness: an update of the file found has returned its identifier.
C3_Witness ==
  /\ UploadFileReturned /\ file_id # None /\ overwrite /\ TargetExistedAtCall
  /\ lookup = "found" /\ path = "update" /\ okCalls.update = 1

\* C4 (as claimed): when no object bears the target name (and the local file
\* exists, upload_file's stated precondition), upload_file always
\* takes the create path and returns a fresh identifier, distinct from every
\* identifier the folder held before the call.
C4_CreatePathAsClaimed ==
  (UploadFileReturned /\ ~TargetExistedAtCall /\ localExists)
  => /\ path = "create"
     /\ file_id # None
     /\ file_id \notin Ids(preRemote)

\* C4 (amended): when no object bears the target name and the local file
\* exists, upload_file takes the create path, never the update or the conflict
\* path; when its create call succeeds it returns the identifier of the one
\* object added, distinct from every identifier the folder held before the
\* call, and when the call fails it returns None and the folder is unchanged.
C4_CreatePath ==
  (UploadFileReturned /\ ~TargetExistedAtCall /\ localExists)
  => /\ path = "create"
     /\ calls.update = 0
     /\ calls.create >= 1
     /\ IF okCalls.create >= 1
          THEN /\ file_id # None
               /\ file_id \notin Ids(preRemote)
               /\ remote = preRemote \cup
                    { [id |-> file_id, name |-> Target, content |-> LocalContent] }
          ELSE file_id = None /\ remote = preRemote

\* C4 witness: a create in a folder that held another object has returned.
C4_Witness ==
  /\ UploadFileReturned /\ ~TargetExistedAtCall /\ localExists
  /\ preRemote # {} /\ path = "create" /\ file_id # None
  /\ file_id \notin Ids(preRemote)

\* Two runs in succession, both with overwrite set, both exiting with 0.
TwoOverwriteRunsSucceeded ==
  /\ prev.ran /\ prev.overwrite /\ prev.exitStatus = 0
  /\ pc = "done" /\ overwrite /\ exitStatus = 0

\* C5 (as claimed): two runs in succession with overwrite set, for the same
\* local file, target name and folder, return the same identifier, and the
\* folder then holds exactly one object under the name.
C5_IdempotenceAsClaimed ==
  TwoOverwriteRunsSucceeded
  => /\ file_id = prev.file_id
     /\ Cardinality(WithName(remote, Target)) = 1

\* C5 (amended): the same, when the folder held at most one object under the
\* name before the first run and, in each run, the lookup call of the attempt
\* that returned the identifier did not fail.
C5_Idempotence ==
  (TwoOverwriteRunsSucceeded
     /\ Cardinality(WithName(prev.startRemote, Target)) <= 1
     /\ prev.lookup # "failed" /\ lookup # "failed")
  => /\ file_id = prev.file_id
     /\ file_id # None
     /\ Cardinality(WithName(remote, Target)) = 1

\* C5 witness: the first run created the file, the second updated it.
C5_Witness ==
  /\ TwoOverwriteRunsSucceeded
  /\ WithName(prev.startRemote, Target) = {}
  /\ prev.lookup = "absent" /\ lookup = "found" /\ path = "update"
  /\ file_id = prev.file_id

\* C6 (as claimed): when the local file does not exist, then for every
\* max_attempts = N >= 1 and either value of overwrite, every attempt fails
\* on the missing file, all N attempts are made and the run exits with 1.
C6_MissingFileAsClaimed ==
  (RunDone /\ max_attempts >= 1 /\ ~localExists /\ ~raised)
  => /\ executorCalls = max_attempts
     /\ calls = NoCalls
     /\ exitStatus = 1

\* C7: once upload_file has returned an identifier the loop makes no further
\* attempt and no sleep; the run returns True and exits with 0, whether the
\* verifying get call succeeds or fails.
C7_BestEffortVerification ==
  file_id # None
  => /\ pc \in {"result", "verify", "write_output", "main_exit", "done"}
     /\ pc \in {"main_exit", "done"}
          => success /\ returnSite \in {"verified", "unverified"}
     /\ pc = "done" => exitStatus = 0

\* C7 witness: the get call failed and the process exited with 0.
C7_Witness ==
  /\ pc = "done" /\ file_id # None
  /\ calls.get = 1 /\ okCalls.get = 0
  /\ exitStatus = 0

\* C8 (as claimed): every run that succeeds with a writable output file has
\* appended the line file-id=<id> with the identifier upload_file returned,
\* whether the verifying get call succeeded or not.
C8_OutputOnSuccessAsClaimed ==
  (pc = "done" /\ exitStatus = 0 /\ githubOutput = "writable")
  => output = << file_id >>

\* C9: the process exits with 0 exactly when some upload_file call returned
\* an identifier (the run returned True); the conflict return, the exhausted
\* loop, missing configuration and a bad credential blob all exit with 1.
C9_ExitStatus ==
  pc = "done"
  => /\ exitStatus \in {0, 1}
     /\ exitStatus = 0 <=> file_id # None
     /\ exitStatus = 0 <=> returnSite \in {"verified", "unverified"}
     /\ returnSite \in {"conflict", "exhausted", "no_credentials", "no_folder",
                        "bad_credentials"} => exitStatus = 1
     /\ returnSite # "none"

\* C9 witness: a run that exhausted its attempts after one sleep exits with 1.
C9_Witness ==
  /\ pc = "done" /\ returnSite = "exhausted" /\ exitStatus = 1
  /\ executorCalls = 2 /\ Len(sleeps) = 1

\* A fatal configuration error: credentials or folder id absent from both
\* sources, or a credential blob that does not decode.
FatalConfig ==
  credAbsent \/ folderAbsent \/ credentials_base64 = "malformed"

\* C10: with a fatal configuration error the process exits with 1 from main
\* or get_credentials, without entering upload_with_retry: no upload_file
\* call, no sleep, no backend call.
C10_FatalConfig ==
  FatalConfig
  => /\ pc \in {"main_folder", "get_credentials", "done"}
     /\ credAbsent => pc = "done" /\ returnSite = "no_credentials"
     /\ folderAbsent => pc = "done" /\ returnSite = "no_folder"
     /\ pc = "done" => /\ exitStatus = 1
                       /\ returnSite \in {"no_credentials", "no_folder",
                                          "bad_credentials"}
     /\ executorCalls = 0
     /\ sleeps = << >>
     /\ calls = NoCalls
     /\ remote = startRemote

\* C10 witness: a blob that does not decode ended the process in get_credentials.
C10_Witness ==
  /\ pc = "done" /\ credentials_base64 = "malformed"
  /\ returnSite = "bad_credentials" /\ exitStatus = 1
  /\ executorCalls = 0 /\ calls = NoCalls

\* The retry and exhaustion rules for attempt i of n: sleep before the next
\* attempt when there is one, else go on to the end of the loop.
RetryRule(i, n) == IF i < n - 1 THEN "sleep" ELSE "loop"

\* The loop is at the point where attempt `attempt` has failed: upload_file
\* returned None, or an unexpected exception reached the handler.
ReturnedNone == pc = "result" /\ file_id = None
ExceptionCaught == pc = "except"

\* C11 (as claimed): an unexpected exception during attempt i is treated as
\* upload_file returning None at attempt i: for every i, max_attempts and
\* overwrite, both end the run at attempt 0 without overwrite, and otherwise
\* both follow the retry and exhaustion rules.
C11_ExceptionAsNoneAsClaimed ==
  [][(ReturnedNone \/ ExceptionCaught)
       => pc' = IF ~overwrite /\ attempt = 0
                  THEN "main_exit"
                  ELSE RetryRule(attempt, max_attempts)]_vars

\* C11 (amended): for every attempt index i >= 1, and for i = 0 when overwrite
\* is set, an unexpected exception and a None result are treated alike: a
\* sleep and then attempt i+1 when i < max_attempts - 1, else the end of the
\* loop, with no sleep.  At attempt 0 without overwrite a None result ends
\* the run at the conflict return, while an exception follows the retry and
\* exhaustion rules.
C11_ExceptionAsNone ==
  [][/\ ((ReturnedNone \/ ExceptionCaught) /\ (attempt >= 1 \/ overwrite))
          => /\ pc' = RetryRule(attempt, max_attempts)
             /\ sleeps' = sleeps
             /\ returnSite' = returnSite
             /\ attempt' = IF pc' = "loop" THEN attempt + 1 ELSE attempt
     /\ (ReturnedNone /\ attempt = 0 /\ ~overwrite)
          => pc' = "main_exit" /\ returnSite' = "conflict" /\ sleeps' = sleeps
     /\ (ExceptionCaught /\ attempt = 0 /\ ~overwrite)
          => pc' = RetryRule(attempt, max_attempts) /\ returnSite' = returnSite
     /\ pc = "sleep"
          => pc' = "loop" /\ attempt' = attempt + 1 /\ Len(sleeps') = Len(sleeps) + 1
    ]_vars

\* C11 witness: the handler of an exception raised in attempt 1 has sent the
\* loop to sleep (the local file exists, yet the attempt made no lookup).
C11_Witness ==
  /\ pc = "sleep" /\ attempt = 1 /\ raised
  /\ localExists /\ lookup = "none"

C13_LocalFilePrecondition ==
  /\ [][(pc = "upload_file" /\ ~localExists /\ pc' # "except")
          => /\ pc' = "result"
             /\ file_id' = None
             /\ calls' = calls
             /\ remote' = remote]_vars
  /\ [](/\ pc \in {"find_existing_file", "branch", "update", "create",
                   "verify", "write_output"} => localExists
        /\ calls # NoCalls => localExists
        /\ (lookup # "none" \/ path # "none") => localExists
        /\ (pc = "result" /\ ~localExists)
             => file_id = None /\ calls = NoCalls /\ remote = startRemote)

\* C13 witness: the second attempt on a missing file has returned None, and
\* the run has made no backend call.
C13_Witness ==
  /\ pc = "result" /\ ~localExists /\ attempt = 1 /\ ~raised
  /\ file_id = None /\ calls = NoCalls /\ executorCalls = 2

\* C14: when the list call fails, find_existing_file returns None and the
\* failure goes no further: upload_file takes the create path, never the
\* update or the conflict path, whatever the overwrite flag.  (The witness
\* shows the consequence: a second object under a name the folder already
\* held, without overwrite.)
C14_LookupFailureCreates ==
  lookup = "failed"
  => /\ existing_file = None
     /\ okCalls.list < calls.list
     /\ pc \notin {"upload_file", "find_existing_file", "update", "except"}
     /\ pc # "branch" => path = "create"
     /\ pc \notin {"branch", "create"} => calls.create >= 1
     /\ pc = "branch" => path = "none"

\* C14 witness: without overwrite, a run whose list call failed has added a
\* second object under the name and exited with 0.
C14_Witness ==
  /\ pc = "done" /\ ~overwrite /\ exitStatus = 0
  /\ lookup = "failed" /\ path = "create"
  /\ Cardinality(WithName(startRemote, Target)) = 1
  /\ Cardinality(WithName(remote, Target)) = 2

\* The steps of one process run.  The program is sequential: every backend
\* call returns or fails and every sleep completes, so a run that can take a
\* step takes one.  FairSpec is one run of the process from any initial
\* state.
RunStep ==
  \/ main_credentials \/ main_folder \/ get_credentials \/ main_upload
  \/ main_exit \/ loop_head \/ upload_file_raises \/ upload_file_check
  \/ find_existing_file \/ upload_file_branch \/ upload_file_update
  \/ upload_file_create \/ attempt_result \/ except_handler \/ sleep
  \/ verify \/ write_output

FairSpec == Init /\ [][RunStep]_vars /\ WF_vars(RunStep)

TerminalSites == {"verified", "unverified", "conflict", "exhausted",
                  "no_credentials", "no_folder", "bad_credentials"}

\* C15: every run reaches the end of the process, with one terminal outcome
\* and an exit status; once the outcome is reached the run makes no further
\* upload_file call, backend call or sleep, and the outcome does not change.
C15_Termination ==
  /\ (pc # "done") ~> (pc = "done")
  /\ [](pc = "done" => returnSite \in TerminalSites /\ exitStatus \in {0, 1})
  /\ [][(returnSite # "none" /\ run' = run)
          => /\ returnSite' = returnSite
             /\ calls' = calls
             /\ sleeps' = sleeps
             /\ executorCalls' = executorCalls
             /\ remote' = remote
             /\ pc' = "done"]_vars

\* C15 witness: a run of three failed attempts and two sleeps has ended.
C15_Witness ==
  /\ pc = "done" /\ returnSite = "exhausted" /\ exitStatus = 1
  /\ max_attempts = 3 /\ executorCalls = 3 /\ Len(sleeps) = 2
  /\ calls.list = 3

\* C16: within a run, a create or update call is issued only after this
\* attempt's list call has returned; the get call is issued only after the
\* create or update call of this attempt returned an identifier (that of the
\* object it added, or of the object it replaced) and is made on that
\* identifier; the file-id line is written only after the get call succeeded.
C16_CallOrdering ==
  [][run' = run =>
       /\ (calls'.create # calls.create \/ calls'.update # calls.update)
            => lookup # "none" /\ calls.list >= 1
       /\ calls'.get # calls.get
            => /\ file_id # None
               /\ getFileId' = file_id
               /\ path \in {"create", "update"}
               /\ path = "create"
                    => /\ okCalls.create >= 1
                       /\ file_id \in Ids(WithName(remote, Target)) \ Ids(preRemote)
               /\ path = "update"
                    => /\ okCalls.update >= 1
                       /\ file_id \in Ids(WithName(preRemote, Target))
                       /\ file_id \in Ids(WithName(remote, Target))
       /\ output' # output
            => okCalls.get >= 1 /\ getFileId = file_id /\ file_id # None]_vars

\* C16 witness: the second attempt looked the file up, replaced it, fetched
\* it by the identifier the update returned and wrote the file-id line.
C16_Witness ==
  /\ pc = "done" /\ path = "update" /\ attempt = 1
  /\ calls = [list |-> 2, create |-> 0, update |-> 2, get |-> 1]
  /\ okCalls.update = 1 /\ okCalls.get = 1
  /\ getFileId = file_id /\ output = << file_id >>

\* C17: without overwrite a run issues no update call, and every object the
\* folder held when the run started is still there with the same identifier,
\* name and content, at every point of the run and when it has ended,
\* whichever list, create and get calls fail.
C17_NoOverwriteFrame ==
  ~overwrite =>
    /\ calls.update = 0
    /\ startRemote \subseteq remote
    /\ \A o \in remote : o.id \in Ids(startRemote) => o \in startRemote

\* C17 witness: a run without overwrite on a folder that held the name has
\* ended after a failed list call, a failed and a successful create call and
\* a failed get call.
C17_Witness ==
  /\ pc = "done" /\ ~overwrite /\ returnSite = "unverified"
  /\ WithName(startRemote, Target) # {}
  /\ calls.list > okCalls.list
  /\ calls.create = 2 /\ okCalls.create = 1
  /\ calls.get = 1 /\ okCalls.get = 0

AtLeastZero(n) == IF n > 0 THEN n ELSE 0

\* C18 as claimed: a run that went through upload_with_retry made at most
\* maxAttempts upload_file calls and at most maxAttempts - 1 sleeps.
C18_BoundsAsClaimed ==
  RunDone => executorCalls <= max_attempts /\ Len(sleeps) <= max_attempts - 1

\* C18: a run makes at most max(maxAttempts, 0) upload_file calls and at most
\* max(maxAttempts - 1, 0) sleeps.  The k-th call is attempt k - 1, so the
\* indices run 0, 1, 2, ... with none skipped or repeated.  A sleep is made
\* only after an attempt that returned no identifier or raised, only when the
\* attempt is not the last one, and the next attempt follows it.
C18_AttemptSleepBounds ==
  /\ [](/\ executorCalls <= AtLeastZero(max_attempts)
        /\ Len(sleeps) <= AtLeastZero(max_attempts - 1)
        /\ Len(sleeps) <= executorCalls
        /\ returnSite # "none" => Len(sleeps) <= AtLeastZero(executorCalls - 1)
        /\ pc = "loop" => executorCalls = attempt)
  /\ [][run' = run =>
         /\ executorCalls' # executorCalls
              => /\ executorCalls' = executorCalls + 1
                 /\ attempt = executorCalls
                 /\ attempt' = attempt
                 /\ 0 <= attempt /\ attempt < max_attempts
         /\ attempt' # attempt
              => attempt' = attempt + 1 /\ executorCalls = attempt + 1
         /\ sleeps' # sleeps
              => /\ Len(sleeps') = Len(sleeps) + 1
                 /\ executorCalls = attempt + 1
                 /\ attempt < max_attempts - 1
                 /\ file_id = None /\ returnSite = "none"
                 /\ pc' = "loop" /\ attempt' = attempt + 1]_vars

\* C18 witness: a run of three attempts, one of them ended by an exception
\* and one by a failed backend call, has slept twice and given up.
C18_Witness ==
  /\ pc = "done" /\ returnSite = "exhausted" /\ max_attempts = 3
  /\ executorCalls = 3 /\ Len(sleeps) = 2 /\ attempt = 3
  /\ raised /\ calls.list > okCalls.list

Mutations(c) == c.create + c.update

\* C19: in a run at most one create or update call succeeds, and once one
\* has, the run issues no further list, create or update call; so the run
\* adds at most one object to the folder and never both adds one and replaces
\* the content of another.
C19_OneMutation ==
  /\ [](/\ Mutations(okCalls) <= 1
        /\ Cardinality(remote \ startRemote) <= 1
        /\ Cardinality(Ids(remote) \ Ids(startRemote)) <= okCalls.create)
  /\ [][(run' = run /\ Mutations(okCalls) = 1)
          => /\ calls'.list = calls.list
             /\ calls'.create = calls.create
             /\ calls'.update = calls.update
             /\ remote' = remote]_vars

\* C19 witness: after a failed create call the retry created the object,
\* and the run went on to the get call and ended without another call.
C19_Witness ==
  /\ pc = "done" /\ returnSite = "verified"
  /\ calls = [list |-> 2, create |-> 2, update |-> 0, get |-> 1]
  /\ okCalls.create = 1
  /\ Cardinality(remote \ startRemote) = 1

\* The run has entered upload_with_retry.
InUploadWithRetry ==
  /\ pc \notin {"main", "main_folder", "get_credentials", "upload_with_retry"}
  /\ returnSite \notin {"no_credentials", "no_folder", "bad_credentials"}

\* C20: a run that enters upload_with_retry with maxAttempts <= 0 makes no
\* upload_file call, no backend call and no sleep, leaves the folder and the
\* output file alone, returns False from the end of the function, and the
\* process exits with status 1.
C20_DegenerateBudget ==
  (InUploadWithRetry /\ max_attempts <= 0)
  => /\ pc \in {"loop", "main_exit", "done"}
     /\ executorCalls = 0
     /\ calls = NoCalls
     /\ sleeps = << >>
     /\ remote = startRemote
     /\ output = << >>
     /\ ~success
     /\ pc # "loop" => returnSite = "exhausted"
     /\ pc = "done" => exitStatus = 1

\* C20 witness: a run with --max-attempts -1 and --overwrite on a folder that
\* holds the name has exited with 1 without a call.
C20_Witness ==
  /\ pc = "done" /\ max_attempts = 0 - 1 /\ overwrite /\ localExists
  /\ TargetExistedAtStart
  /\ returnSite = "exhausted" /\ exitStatus = 1
  /\ executorCalls = 0 /\ calls = NoCalls

====
